---- MODULE Spec2Model ----
(***************************************************************************)
(* Model of jmpnz/flat_graphs, src/main.rs: a directed graph stored as a   *)
(* Vec<Node> whose nodes refer to each other by index (NodeRef), with      *)
(* add_node, add_node_linked, node_as_ref, node_as_mut_ref, link and the   *)
(* breadth-first walk.                                                     *)
(*                                                                         *)
(* Rust vectors are 0-based, TLA+ sequences 1-based: the element at Rust   *)
(* index i is v[i + 1].  An Option<T> is a set: None is {} and Some(x) is  *)
(* {x}.  A panic (unwrap on None, index out of bounds) ends the process:   *)
(* pc becomes "panicked" and no action is enabled afterwards.              *)
(*                                                                         *)
(* The driver has the shape of main: it builds the graph (pc = "build"),   *)
(* then calls walk once (pc = "walk"), which returns (pc = "returned") or  *)
(* panics.  One step of the walk is one iteration of its while loop.       *)
(* calls records the visitor's invocations, refs the references handed out  *)
(* by add_node and add_node_linked, pushes the number of push_back calls on *)
(* walk's queue.                                                           *)
(***************************************************************************)
EXTENDS Integers, Sequences, FiniteSets, TLC

VARIABLES nodes, pc, visited, queue, calls, last, refs, pushes

vars == <<nodes, pc, visited, queue, calls, last, refs, pushes>>

\* Largest number of nodes the driver adds.
MaxNodes == 3
\* Largest total number of stored edges the driver creates.
MaxEdges == 3
\* Largest length of the edge vector handed to add_node_linked.
MaxLinked == 1

\* const ROOT: NodeRef = NodeRef(0)
ROOT == 0

None == {}
Some(x) == {x}
\* Option::unwrap on a Some value.
Unwrap(o) == CHOOSE x \in o : TRUE

\* Vec::get / Vec::get_mut: bounds-checked access at a 0-based index.
Get(v, i) == IF i >= 0 /\ i < Len(v) THEN Some(v[i + 1]) ELSE None

\* format!(".L{node_id}")
Label(node_id) == ".L" \o ToString(node_id)

\* The struct Node { id, label, edges }.
Node(node_id, edges) == [id |-> node_id, label |-> Label(node_id), edges |-> edges]

\* Graph::new
new == <<>>

\* Mutant: the stored identity is one past the storage index.
add_node_shifted(g) ==
    LET node_id == Len(g)
    IN  [nodes |-> Append(g, [Node(node_id, <<>>) EXCEPT !.id = node_id + 1]),
         ret |-> node_id]

\* Mutant: the returned reference is the node count after the push.
add_node_count_after(g) ==
    LET node_id == Len(g)
    IN  [nodes |-> Append(g, Node(node_id, <<>>)), ret |-> node_id + 1]

\* Graph::add_node on the node vector g: the new vector and the returned reference.
add_node(g) ==
    LET node_id == Len(g)
    IN  [nodes |-> Append(g, Node(node_id, <<>>)), ret |-> node_id]

\* Mutant: an index past the end resolves to the last node.
node_as_ref_clamped(g, id) == Get(g, IF id >= Len(g) THEN Len(g) - 1 ELSE id)

\* Graph::node_as_ref
node_as_ref(g, id) == Get(g, id)

\* Graph::node_as_mut_ref (the lookup itself; it changes nothing)
node_as_mut_ref(g, id) == Get(g, id)

\* Mutant: a source out of bounds is ignored instead of panicking.
link_lenient(g, from, to) ==
    IF Get(g, from) = None
    THEN [panic |-> FALSE, nodes |-> g]
    ELSE [panic |-> FALSE,
          nodes |-> [g EXCEPT ![from + 1].edges = Append(@, to)]]

\* Mutant: a target out of bounds is refused with a panic as well.
link_strict(g, from, to) ==
    IF Get(g, from) = None \/ Get(g, to) = None
    THEN [panic |-> TRUE, nodes |-> g]
    ELSE [panic |-> FALSE,
          nodes |-> [g EXCEPT ![from + 1].edges = Append(@, to)]]

\* Graph::link: get_mut(from).unwrap() panics when from is out of bounds,
\* otherwise to is pushed at the end of from's edges.
link(g, from, to) ==
    LET src_node == Get(g, from)
    IN  IF src_node = None
        THEN [panic |-> TRUE, nodes |-> g]
        ELSE [panic |-> FALSE,
              nodes |-> [g EXCEPT ![from + 1].edges = Append(@, to)]]

\* Mutant: the loop calls link(edge, NodeRef(node_id)), arguments swapped.
RECURSIVE LinkAllSwapped(_, _, _, _)
LinkAllSwapped(g, node_id, edges, i) ==
    IF i > Len(edges)
    THEN [panic |-> FALSE, nodes |-> g]
    ELSE LET r == link(g, edges[i], node_id)
         IN  IF r.panic THEN r ELSE LinkAllSwapped(r.nodes, node_id, edges, i + 1)

\* The loop `for &edge in &edges { self.link(NodeRef(node_id), edge) }`,
\* from position i of edges on.
RECURSIVE LinkAll(_, _, _, _)
LinkAll(g, node_id, edges, i) ==
    IF i > Len(edges)
    THEN [panic |-> FALSE, nodes |-> g]
    ELSE LET r == link(g, node_id, edges[i])
         IN  IF r.panic THEN r ELSE LinkAll(r.nodes, node_id, edges, i + 1)

\* Mutant: the node is pushed with its edges and the link loop is left out.
add_node_linked_once(g, edges) ==
    [panic |-> FALSE, nodes |-> Append(g, Node(Len(g), edges)), ret |-> Len(g)]

\* Graph::add_node_linked: push the node with edges.clone(), then link each edge.
add_node_linked(g, edges) ==
    LET node_id == Len(g)
        pushed  == Append(g, Node(node_id, edges))
        r       == LinkAll(pushed, node_id, edges, 1)
    IN  [panic |-> r.panic, nodes |-> r.nodes, ret |-> node_id]

\* vec![false; self.nodes.len()]
NewVisited(g) == [i \in 1..Len(g) |-> FALSE]

\* Mutant: the visited marker is never set.
MarkVisitedNever(v, id) == v

\* visited[node.0] = true
MarkVisited(v, id) == [v EXCEPT ![id + 1] = TRUE]

\* Mutant: the front reference is read but stays in the queue.
PopFrontPeek(q) == q

\* The queue after queue.pop_front() took its front element.
PopFront(q) == Tail(q)

\* Mutant: push_front instead of push_back, one edge after the other.
EnqueueFront(q, edges) == [i \in 1..Len(edges) |-> edges[Len(edges) + 1 - i]] \o q

\* The queue after the edge loop of walk did queue.push_back(edge) for each
\* edge in order.
Enqueue(q, edges) == q \o edges

\* Mutant: the edges are reported last to first.
EdgeCallsReversed(g, node) ==
    [i \in 1..Len(node.edges) |->
        [from |-> node,
         to |-> Get(g, node.edges[Len(node.edges) + 1 - i])]]

\* The visitor calls of the `for &edge in &node.edges` loop of walk, in order:
\* visitor(node, self.node_as_ref(edge)) per edge.
EdgeCalls(g, node) ==
    [i \in 1..Len(node.edges) |->
        [from |-> node, to |-> node_as_ref(g, node.edges[i])]]

\* Mutant: a node without edges is reported with itself as the target.
LeafCallSelf(node) == <<[from |-> node, to |-> Some(node)]>>

\* Mutant: a node without edges is not reported.
LeafCallSilent(node) == <<>>

\* The single visitor call of a node without edges: visitor(node, None).
LeafCall(node) == <<[from |-> node, to |-> None]>>

RECURSIVE SumEdges(_, _)
SumEdges(g, i) == IF i > Len(g) THEN 0 ELSE Len(g[i].edges) + SumEdges(g, i + 1)
\* Total number of stored edges.
TotalEdges(g) == SumEdges(g, 1)

\* The record of the latest call of the driver.
Call(op, args, ref, node) == [op |-> op, args |-> args, ref |-> ref, node |-> node]

Init ==
    /\ nodes = new
    /\ pc = "build"
    /\ visited = <<>>
    /\ queue = <<>>
    /\ calls = <<>>
    /\ last = Call("new", <<>>, None, None)
    /\ refs = {}
    /\ pushes = 0

\* The driver calls add_node while the graph has fewer than max nodes.
AddNodeUpTo(max) ==
    /\ pc = "build"
    /\ Len(nodes) < max
    /\ LET r == add_node(nodes)
       IN  /\ nodes' = r.nodes
           /\ last' = Call("add_node", <<>>, Some(r.ret), None)
           /\ refs' = refs \cup {r.ret}
    /\ UNCHANGED <<pc, visited, queue, calls, pushes>>

AddNode == AddNodeUpTo(MaxNodes)

\* Sequences over S of length at most n.
SeqUpTo(S, n) == UNION {[1..k -> S] : k \in 0..n}

\* The driver calls add_node_linked(edges).
AddNodeLinked ==
    /\ pc = "build"
    /\ Len(nodes) < MaxNodes
    /\ \E edges \in SeqUpTo(0..MaxNodes, MaxLinked) :
        /\ TotalEdges(nodes) + 2 * Len(edges) <= MaxEdges
        /\ LET r == add_node_linked(nodes, edges)
           IN  /\ nodes' = r.nodes
               /\ pc' = IF r.panic THEN "panicked" ELSE "build"
               /\ last' = Call("add_node_linked", edges,
                               IF r.panic THEN None ELSE Some(r.ret), None)
               /\ refs' = IF r.panic THEN refs ELSE refs \cup {r.ret}
    /\ UNCHANGED <<visited, queue, calls, pushes>>

\* The driver calls link(from, to), <<from, to>> drawn from Pairs, while fewer
\* than max edges are stored.
LinkUpTo(Pairs, max) ==
    /\ pc = "build"
    /\ TotalEdges(nodes) < max
    /\ \E p \in Pairs :
        LET r == link(nodes, p[1], p[2])
        IN  /\ nodes' = r.nodes
            /\ pc' = IF r.panic THEN "panicked" ELSE "build"
            /\ last' = Call("link", p, None, None)
    /\ UNCHANGED <<visited, queue, calls, refs, pushes>>

Link == LinkUpTo((0..MaxNodes) \X (0..MaxNodes), MaxEdges)

\* The driver calls node_as_ref(id).
NodeAsRef ==
    /\ pc = "build"
    /\ \E id \in 0..MaxNodes :
        last' = Call("node_as_ref", <<id>>, None, node_as_ref(nodes, id))
    /\ UNCHANGED <<nodes, pc, visited, queue, calls, refs, pushes>>

\* The driver calls node_as_mut_ref(id) and does not write through the result.
NodeAsMutRef ==
    /\ pc = "build"
    /\ \E id \in 0..MaxNodes :
        last' = Call("node_as_mut_ref", <<id>>, None, node_as_mut_ref(nodes, id))
    /\ UNCHANGED <<nodes, pc, visited, queue, calls, refs, pushes>>

\* Mutant: the queue starts with every stored node, not with ROOT alone.
WalkStartAll ==
    /\ pc = "build"
    /\ pc' = "walk"
    /\ visited' = NewVisited(nodes)
    /\ queue' = [i \in 1..Len(nodes) |-> i - 1]
    /\ calls' = <<>>
    /\ pushes' = Len(nodes)
    /\ last' = Call("walk", <<>>, None, None)
    /\ UNCHANGED <<nodes, refs>>

\* walk, up to the while loop: the visited vector and the queue holding ROOT.
WalkStart ==
    /\ pc = "build"
    /\ pc' = "walk"
    /\ visited' = NewVisited(nodes)
    /\ queue' = <<ROOT>>
    /\ calls' = <<>>
    /\ pushes' = 1
    /\ last' = Call("walk", <<>>, None, None)
    /\ UNCHANGED <<nodes, refs>>

\* Mutant: a reference past the visited vector is dropped without a panic.
WalkPanicTolerant ==
    /\ pc = "walk"
    /\ queue # <<>>
    /\ Head(queue) >= Len(visited)
    /\ queue' = PopFront(queue)
    /\ UNCHANGED <<nodes, pc, visited, calls, last, refs, pushes>>

\* An iteration whose dequeued reference indexes past the visited vector:
\* `visited[node.0]` panics.
WalkPanic ==
    /\ pc = "walk"
    /\ queue # <<>>
    /\ Head(queue) >= Len(visited)
    /\ queue' = PopFront(queue)
    /\ pc' = "panicked"
    /\ UNCHANGED <<nodes, visited, calls, last, refs, pushes>>

\* An iteration whose dequeued reference is already visited: `continue`.
WalkSkip ==
    /\ pc = "walk"
    /\ queue # <<>>
    /\ Head(queue) < Len(visited)
    /\ visited[Head(queue) + 1]
    /\ queue' = PopFront(queue)
    /\ UNCHANGED <<nodes, pc, visited, calls, last, refs, pushes>>

\* An iteration that visits the dequeued reference: mark it, resolve it, and
\* report and enqueue each edge, or report the node alone when it has none.
WalkVisit ==
    /\ pc = "walk"
    /\ queue # <<>>
    /\ Head(queue) < Len(visited)
    /\ ~visited[Head(queue) + 1]
    /\ visited' = MarkVisited(visited, Head(queue))
    /\ LET found == node_as_ref(nodes, Head(queue))
       IN  IF found = None
           THEN /\ pc' = "panicked"
                /\ queue' = PopFront(queue)
                /\ calls' = calls
                /\ pushes' = pushes
           ELSE LET node == Unwrap(found)
                IN  /\ pc' = pc
                    /\ IF Len(node.edges) > 0
                       THEN /\ calls' = calls \o EdgeCalls(nodes, node)
                            /\ queue' = Enqueue(PopFront(queue), node.edges)
                            /\ pushes' = pushes + Len(node.edges)
                       ELSE /\ calls' = calls \o LeafCall(node)
                            /\ queue' = PopFront(queue)
                            /\ pushes' = pushes
    /\ UNCHANGED <<nodes, last, refs>>

\* `queue.pop_front()` yields None: the loop ends and walk returns.
WalkReturn ==
    /\ pc = "walk"
    /\ queue = <<>>
    /\ pc' = "returned"
    /\ UNCHANGED <<nodes, visited, queue, calls, last, refs, pushes>>

Next ==
    \/ AddNode
    \/ AddNodeLinked
    \/ Link
    \/ NodeAsRef
    \/ NodeAsMutRef
    \/ WalkStart
    \/ WalkPanic
    \/ WalkSkip
    \/ WalkVisit
    \/ WalkReturn

Spec == Init /\ [][Next]_vars

(***************************************************************************)
(* The driver main: five add_node calls, then link(root, a), link(a, b),   *)
(* link(b, c), link(b, d), link(d, a), then walk.  MainSpec lets the       *)
(* driver issue main's add_node calls and main's link calls in any order   *)
(* and number within main's totals, so that main's own run is one of its   *)
(* behaviours.                                                             *)
(***************************************************************************)
\* The number of add_node calls of main.
MainNodes == 5
\* The link calls of main, in program order, as <<from, to>>.
MainLinkSeq == << <<0, 1>>, <<1, 2>>, <<2, 3>>, <<2, 4>>, <<4, 1>> >>
\* The number of link calls of main.
MainEdges == Len(MainLinkSeq)

\* k add_node calls in a row.
RECURSIVE AddNodes(_, _)
AddNodes(g, k) == IF k = 0 THEN g ELSE AddNodes(add_node(g).nodes, k - 1)

\* The link calls links[i], links[i+1], ... in a row (none of main's panics).
RECURSIVE LinkSeq(_, _, _)
LinkSeq(g, links, i) ==
    IF i > Len(links) THEN g
    ELSE LinkSeq(link(g, links[i][1], links[i][2]).nodes, links, i + 1)

\* The graph main has built when it calls walk.
MainGraph == LinkSeq(AddNodes(new, MainNodes), MainLinkSeq, 1)

MainAddNode == AddNodeUpTo(MainNodes)

MainLink == LinkUpTo({MainLinkSeq[i] : i \in DOMAIN MainLinkSeq}, MainEdges)

MainNext ==
    \/ MainAddNode
    \/ MainLink
    \/ WalkStart
    \/ WalkPanic
    \/ WalkSkip
    \/ WalkVisit
    \/ WalkReturn

MainSpec == Init /\ [][MainNext]_vars

(***************************************************************************)
(* A driver that calls add_node and link only and links stored nodes only, *)
(* so that every edge is in bounds, on graphs of one node more than Spec's: *)
(* the smallest graphs on which a walk that is not breadth-first expands a *)
(* node two edges from the root before one a single edge from it.          *)
(***************************************************************************)
LayerAddNode == AddNodeUpTo(MaxNodes + 1)

LayerLink ==
    LinkUpTo((0..(Len(nodes) - 1)) \X (0..(Len(nodes) - 1)), MaxEdges)

LayerNext ==
    \/ LayerAddNode
    \/ LayerLink
    \/ WalkStart
    \/ WalkPanic
    \/ WalkSkip
    \/ WalkVisit
    \/ WalkReturn

LayerSpec == Init /\ [][LayerNext]_vars

\* The steps of walk's loop.  Once walk is called it runs on: nothing in the
\* single-threaded program preempts it.
WalkNext == WalkPanic \/ WalkSkip \/ WalkVisit \/ WalkReturn

FairSpec == Spec /\ WF_vars(WalkNext)

(***************************************************************************)
(* Properties.                                                             *)
(***************************************************************************)
\* The visitor calls so far as <<source index, target index or absent>>.
CallIds == [i \in DOMAIN calls |-> <<calls[i].from.id, {n.id : n \in calls[i].to}>>]

\* C1 (as stated): walking the graph built by main produces exactly the
\* visitor calls (root,A), (A,B), (B,C), (B,D), (D,A), in this order.
C1_MainCallsAsStated ==
    (nodes = MainGraph /\ pc = "returned") =>
        CallIds = << <<0, {1}>>, <<1, {2}>>, <<2, {3}>>, <<2, {4}>>, <<4, {1}>> >>

\* C1 (amended): walking the graph built by main produces exactly the
\* visitor calls (root,A), (A,B), (B,C), (B,D), (C,absent), (D,A), in this
\* order: C has no edges and is reported once with an absent target.
C1_MainCalls ==
    (nodes = MainGraph /\ pc = "returned") =>
        CallIds = << <<0, {1}>>, <<1, {2}>>, <<2, {3}>>, <<2, {4}>>,
                     <<3, {}>>, <<4, {1}>> >>

\* main's graph has been walked to the end.
C1_Witness == nodes = MainGraph /\ pc = "returned" /\ Len(calls) > 0

\* Every edge of g points at a stored node.
InBounds(g) ==
    \A i \in 1..Len(g) : \A k \in 1..Len(g[i].edges) : g[i].edges[k] < Len(g)

\* The references reachable from those of S along the edges of g.
RECURSIVE ReachFrom(_, _)
ReachFrom(g, S) ==
    LET U == S \cup UNION {{g[i + 1].edges[k] : k \in 1..Len(g[i + 1].edges)} :
                              i \in {j \in S : j < Len(g)}}
    IN  IF U = S THEN S ELSE ReachFrom(g, U)

\* The references reachable from index 0 in a graph with at least one node.
Reachable(g) == IF Len(g) = 0 THEN {} ELSE ReachFrom(g, {ROOT})

\* The visitor calls so far whose source is node n, in order.
CallsFrom(n) ==
    LET FromN(c) == c.from.id = n
    IN  SelectSeq(calls, FromN)

\* C2: on a non-empty graph, walk never aborts, also when a reachable edge
\* points past the node count: it reports that edge with an absent target
\* and runs to completion.
C2_DanglingNeverAborts ==
    (last.op = "walk" /\ Len(nodes) > 0) => pc # "panicked"

\* C3: after walk on a non-empty graph whose edges are all in bounds, the
\* visitor calls with source n are, for every node n reachable from index 0,
\* exactly one call per position of n's edge list with that edge's target,
\* or the single call (n, absent) when n has no edges.
C3_VisitedOnce ==
    (pc = "returned" /\ Len(nodes) >= 1 /\ InBounds(nodes)) =>
        \A n \in Reachable(nodes) :
            LET node == nodes[n + 1]
            IN  CallsFrom(n) =
                    IF Len(node.edges) = 0
                    THEN <<[from |-> node, to |-> {}]>>
                    ELSE [k \in 1..Len(node.edges) |->
                            [from |-> node, to |-> {nodes[node.edges[k] + 1]}]]

\* A finished walk of an in-bounds graph in which a node has a duplicate edge
\* and a node is the target of edges of two different reachable nodes.
C3_Witness ==
    /\ pc = "returned" /\ Len(nodes) >= 1 /\ InBounds(nodes)
    /\ \E n \in Reachable(nodes) : \E j, k \in 1..Len(nodes[n + 1].edges) :
          j # k /\ nodes[n + 1].edges[j] = nodes[n + 1].edges[k]
    /\ \E t, m, n \in Reachable(nodes) :
          /\ m # n
          /\ \E k \in 1..Len(nodes[m + 1].edges) : nodes[m + 1].edges[k] = t
          /\ \E k \in 1..Len(nodes[n + 1].edges) : nodes[n + 1].edges[k] = t

C5_WalkTerminates ==
    (pc = "walk" /\ Len(nodes) >= 1 /\ InBounds(nodes)) ~> (pc = "returned")

\* A finished walk of an in-bounds graph with a self-edge and a cycle through
\* two nodes.
C5_Witness ==
    /\ pc = "returned" /\ Len(nodes) >= 1 /\ InBounds(nodes)
    /\ \E n \in Reachable(nodes) : \E k \in 1..Len(nodes[n + 1].edges) :
          nodes[n + 1].edges[k] = n
    /\ \E m, n \in Reachable(nodes) :
          /\ m # n
          /\ \E k \in 1..Len(nodes[m + 1].edges) : nodes[m + 1].edges[k] = n
          /\ \E k \in 1..Len(nodes[n + 1].edges) : nodes[n + 1].edges[k] = m

\* C6: walk on an empty graph halts with a fatal error at the first dequeue,
\* that of the root reference, without any visitor call and without
\* returning.
C6_EmptyWalkFatal ==
    [][(pc = "walk" /\ Len(nodes) = 0) =>
          /\ queue = <<ROOT>>
          /\ calls = <<>>
          /\ pc' = "panicked"
          /\ calls' = <<>>]_vars

\* walk on the empty graph has panicked.
C6_Witness ==
    pc = "panicked" /\ last.op = "walk" /\ Len(nodes) = 0 /\ calls = <<>>

\* C7: link(from, to) with from.index >= node count is a fatal error that
\* leaves the node count, every label and every edge list unchanged.
C7_LinkBadSourceFatal ==
    [][(pc = "build" /\ last'.op = "link" /\ last'.args[1] >= Len(nodes)) =>
          /\ pc' = "panicked"
          /\ nodes' = nodes
          /\ refs' = refs]_vars

\* link has panicked on a graph that has nodes and edges.
C7_Witness ==
    /\ pc = "panicked" /\ last.op = "link"
    /\ last.args[1] >= Len(nodes)
    /\ Len(nodes) >= 1 /\ TotalEdges(nodes) >= 1

\* C8: every stored node's identity equals its storage index, and every
\* reference returned by add_node or add_node_linked resolves through
\* node_as_ref to a present node whose identity is that reference.
C8_IdentityIsIndex ==
    /\ \A i \in 1..Len(nodes) : nodes[i].id = i - 1
    /\ \A r \in refs :
          /\ node_as_ref(nodes, r) # None
          /\ \A n \in node_as_ref(nodes, r) : n.id = r

\* add_node_linked has returned a reference on a graph with several nodes
\* and edges.
C8_Witness ==
    /\ last.op = "add_node_linked" /\ last.ref \subseteq refs /\ last.ref # {}
    /\ Cardinality(refs) >= 2 /\ TotalEdges(nodes) >= 2

\* The positions of the visitor calls whose source is node a.
CallPositions(a) == {i \in DOMAIN calls : calls[i].from.id = a}

\* The visitor calls with source a are consecutive and follow a's edge list.
C9_CallsFollowEdges ==
    \A a \in 0..Len(nodes) - 1 :
        LET P     == CallPositions(a)
            edges == nodes[a + 1].edges
        IN  P # {} =>
               \E lo \in P :
                  IF Len(edges) = 0
                  THEN P = {lo} /\ CallIds[lo] = <<a, {}>>
                  ELSE /\ P = lo..(lo + Len(edges) - 1)
                       /\ \A k \in 1..Len(edges) :
                             CallIds[lo + k - 1] =
                                <<a, IF edges[k] < Len(nodes) THEN {edges[k]} ELSE {}>>

\* A successful link(a, b) puts b after the edges a already has.
C9_LinkAppends ==
    (pc = "build" /\ last'.op = "link" /\ pc' = "build") =>
        LET a == last'.args[1]
        IN  nodes' = [nodes EXCEPT ![a + 1].edges = nodes[a + 1].edges \o <<last'.args[2]>>]

\* C9: for any node a, the visitor calls with source a occur consecutively
\* and in the order of a's edge list, and link(a, b) puts b last in that
\* list; so after link(a, b1) and a later link(a, b2), walk reports (a, b1)
\* before (a, b2).
C9_EdgeOrderPreserved == []C9_CallsFollowEdges /\ [][C9_LinkAppends]_vars

\* A finished walk that reported a node with two different edge targets.
C9_Witness ==
    /\ pc = "returned"
    /\ \E a \in 0..Len(nodes) - 1 :
          /\ Len(nodes[a + 1].edges) >= 2
          /\ nodes[a + 1].edges[1] # nodes[a + 1].edges[2]
          /\ CallPositions(a) # {}

\* A lookup answers present exactly for an index below the node count, and
\* then with the node stored at that index.
C10_LookupResult ==
    last.op \in {"node_as_ref", "node_as_mut_ref"} =>
        /\ pc = "build"
        /\ (last.node # None) <=> (last.args[1] < Len(nodes))
        /\ last.node # None => last.node = {nodes[last.args[1] + 1]}

\* A lookup changes neither the graph nor the course of the program.
C10_LookupFrame ==
    (pc = "build" /\ last'.op \in {"node_as_ref", "node_as_mut_ref"}) =>
        nodes' = nodes /\ pc' = "build" /\ refs' = refs

\* C10: node_as_ref(r) and node_as_mut_ref(r) return a present node if and
\* only if r.index < node count; for r.index >= node count they return an
\* absence result, never a fatal error, and leave the graph unchanged.
C10_LookupTotal == []C10_LookupResult /\ [][C10_LookupFrame]_vars

\* node_as_mut_ref has answered absent for the index equal to the node count
\* of a non-empty graph.
C10_Witness ==
    /\ last.op = "node_as_mut_ref"
    /\ Len(nodes) >= 1 /\ last.args[1] = Len(nodes)
    /\ last.node = None /\ pc = "build"

\* A step in which add_node or add_node_linked is called.
AddStep ==
    /\ pc = "build"
    /\ last'.op \in {"add_node", "add_node_linked"}
    /\ (last' # last \/ nodes' # nodes)

\* A call of add_node or add_node_linked on a graph with n nodes returns the
\* reference with index n and leaves n + 1 nodes.
C11_AddReturnsCount ==
    AddStep =>
        /\ last'.ref = {Len(nodes)}
        /\ Len(nodes') = Len(nodes) + 1
        /\ refs' = refs \cup {Len(nodes)}
        /\ (Len(nodes) = 0 => last'.ref = {0})

\* The references returned so far are 0, 1, 2, ... up to the node count,
\* without gaps.
C11_RefsDense == refs = 0..(Len(nodes) - 1)

\* C11: every call of add_node or add_node_linked on a graph with n nodes
\* returns the reference with index n and leaves exactly n + 1 nodes, so the
\* returned references are 0, 1, 2, ... with no reuse and no gaps, and the
\* first node added is index 0, the traversal root.
C11_SequentialAllocation == []C11_RefsDense /\ [][C11_AddReturnsCount]_vars

\* add_node has returned the third reference of a graph that also has edges.
C11_Witness ==
    /\ last.op = "add_node" /\ last.ref = {2}
    /\ refs = {0, 1, 2} /\ Len(nodes) = 3
    /\ TotalEdges(nodes) >= 1

\* C12: add_node and add_node_linked leave the identity, label and edge list
\* of every node stored before the call unchanged, so every reference
\* returned earlier resolves to the same node content as before.
C12_IndexStability ==
    [][AddStep =>
          /\ SubSeq(nodes', 1, Len(nodes)) = nodes
          /\ \A r \in refs : node_as_ref(nodes', r) = node_as_ref(nodes, r)]_vars

\* add_node_linked has returned with an edge to the first node, which holds
\* an edge of its own, as it did before.
C12_Witness ==
    /\ last.op = "add_node_linked" /\ pc = "build"
    /\ Len(last.args) >= 1 /\ last.args[1] = 0
    /\ Len(nodes) >= 2
    /\ Len(nodes[1].edges) = 1

\* C13: link(from, to) with from in bounds succeeds for any to, also for
\* to.index >= node count and for to = from: it appends one occurrence of to
\* at the end of from's edge list and changes nothing else.
C13_LinkAppendsOnly ==
    [][(pc = "build" /\ last'.op = "link" /\ last'.args[1] < Len(nodes)) =>
          /\ pc' = "build"
          /\ Len(nodes') = Len(nodes)
          /\ \A i \in 1..Len(nodes) :
                /\ nodes'[i].id = nodes[i].id
                /\ nodes'[i].label = nodes[i].label
                /\ nodes'[i].edges =
                      IF i = last'.args[1] + 1
                      THEN nodes[i].edges \o <<last'.args[2]>>
                      ELSE nodes[i].edges
          /\ refs' = refs]_vars

\* link has returned from a call whose target is past the node count, on a
\* source that already had an edge to itself.
C13_Witness ==
    /\ last.op = "link" /\ pc = "build"
    /\ last.args[1] < Len(nodes) /\ last.args[2] >= Len(nodes)
    /\ nodes[last.args[1] + 1].edges = <<last.args[1], last.args[2]>>

\* The targets of the edges of the stored nodes among S.
Successors(g, S) ==
    UNION {{g[i + 1].edges[k] : k \in 1..Len(g[i + 1].edges)} :
              i \in {j \in S : j < Len(g)}}

\* The least number of edges on a path to n from the nodes of frontier, which
\* are d edges from index 0, not passing through seen; -1 when there is none.
RECURSIVE DistFrom(_, _, _, _, _)
DistFrom(g, n, seen, frontier, d) ==
    IF n \in frontier THEN d
    ELSE IF frontier = {} THEN -1
    ELSE DistFrom(g, n, seen \cup frontier,
                  Successors(g, frontier) \ (seen \cup frontier), d + 1)

\* The shortest-path distance from index 0 to n.
Dist(g, n) == DistFrom(g, n, {}, {0}, 0)

\* C14: in a walk over a non-empty graph with in-bounds edges the root is the
\* first node expanded, and a node expanded before another is at a
\* shortest-path distance from index 0 less than or equal to the other's.
C14_LayerOrder ==
    (Len(nodes) >= 1 /\ InBounds(nodes)) =>
        /\ calls # <<>> => calls[1].from.id = 0
        /\ \A i, j \in DOMAIN calls :
              i < j => /\ Dist(nodes, calls[i].from.id) >= 0
                       /\ Dist(nodes, calls[i].from.id) <= Dist(nodes, calls[j].from.id)

\* A finished walk that expanded two nodes one edge from the root and then a
\* node two edges from it.
C14_Witness ==
    /\ pc = "returned" /\ InBounds(nodes)
    /\ \E i, j, k \in DOMAIN calls :
          /\ i < j /\ j < k
          /\ calls[i].from.id # calls[j].from.id
          /\ Dist(nodes, calls[i].from.id) = 1
          /\ Dist(nodes, calls[j].from.id) = 1
          /\ Dist(nodes, calls[k].from.id) = 2

\* The iteration that visits a node without edges issues the one call
\* (node, absent) and enqueues nothing.
C15_LeafStep ==
    (/\ pc = "walk" /\ queue # <<>> /\ Head(queue) < Len(nodes)
     /\ ~visited[Head(queue) + 1]
     /\ nodes[Head(queue) + 1].edges = <<>>) =>
        /\ calls' = Append(calls, [from |-> nodes[Head(queue) + 1], to |-> {}])
        /\ queue' = Tail(queue)
        /\ pushes' = pushes

\* A node without edges is never reported twice, is reported once by the end
\* of the walk when reachable, and, in a graph whose edges are in bounds,
\* the calls with an absent target are those of the nodes without edges.
C15_AbsentIffLeaf ==
    /\ \A n \in 0..(Len(nodes) - 1) :
          nodes[n + 1].edges = <<>> =>
             /\ Len(CallsFrom(n)) <= 1
             /\ (pc = "returned" /\ n \in ReachFrom(nodes, {0})) =>
                   CallsFrom(n) = <<[from |-> nodes[n + 1], to |-> {}]>>
    /\ InBounds(nodes) =>
          \A i \in DOMAIN calls :
             (calls[i].to = {}) <=> (nodes[calls[i].from.id + 1].edges = <<>>)

\* C15: a reachable node with zero outgoing edges produces exactly one
\* visitor call (node, absent target) and enqueues nothing; and for graphs
\* whose edge targets are all in bounds a visitor call carries an absent
\* target if and only if its source node has zero outgoing edges.
C15_LeafReportedOnce == []C15_AbsentIffLeaf /\ [][C15_LeafStep]_vars

\* A finished walk of an in-bounds graph that reported a node without edges
\* and a node with edges.
C15_Witness ==
    /\ pc = "returned" /\ InBounds(nodes)
    /\ \E i, j \in DOMAIN calls :
          /\ calls[i].to = {} /\ calls[i].from.edges = <<>>
          /\ calls[j].to # {} /\ calls[j].from.edges # <<>>

\* During walk a visited marker goes from false to true only, at most one
\* per iteration.
C16_MarkersMonotone ==
    pc = "walk" =>
        /\ Len(visited') = Len(visited)
        /\ \A i \in 1..Len(visited) : visited[i] => visited'[i]
        /\ Cardinality({i \in 1..Len(visited) : visited'[i] # visited[i]}) <= 1

\* A dequeued reference that is already visited is discarded: no visitor
\* call, no enqueue, no marker change.
C16_VisitedDiscarded ==
    (/\ pc = "walk" /\ queue # <<>> /\ Head(queue) < Len(visited)
     /\ visited[Head(queue) + 1]) =>
        /\ queue' = Tail(queue)
        /\ calls' = calls
        /\ pushes' = pushes
        /\ visited' = visited
        /\ pc' = "walk"

\* The enqueue operations of one walk number at most 1 plus the edges of the
\* graph.
C16_PushesBounded == pushes <= 1 + TotalEdges(nodes)

\* C16: during walk the visited marker of every index changes only from
\* false to true and at most once; a dequeued reference that is already
\* visited is discarded with no visitor call and no enqueue; and the total
\* number of enqueue operations in one walk is at most 1 plus the total
\* number of edges in the graph.  (That the same reference may sit in the
\* queue several times is the state of C16_Witness.)
C16_VisitedOnceBoundsQueue ==
    /\ []C16_PushesBounded
    /\ [][C16_MarkersMonotone]_vars
    /\ [][C16_VisitedDiscarded]_vars

\* The queue holds the same reference twice, and its front is a visited
\* reference about to be discarded.
C16_Witness ==
    /\ pc = "walk" /\ queue # <<>>
    /\ \E i, j \in DOMAIN queue : i < j /\ queue[i] = queue[j]
    /\ Head(queue) < Len(visited) /\ visited[Head(queue) + 1]
    /\ pushes = 1 + TotalEdges(nodes)

\* C17: a node that is not reachable from index 0 along out-edges never
\* appears as the source of a visitor call, and every reference in the queue
\* is index 0 or the target of an edge of an already-visited node.
C17_OnlyReachable ==
    /\ \A i \in DOMAIN calls : calls[i].from.id \in ReachFrom(nodes, {0})
    /\ \A k \in DOMAIN queue :
          \/ queue[k] = 0
          \/ \E n \in 1..Len(visited) :
                /\ visited[n]
                /\ \E e \in 1..Len(nodes[n].edges) : nodes[n].edges[e] = queue[k]

\* A finished walk of a graph with a node that has an edge into the walked
\* part and is not reachable from index 0.
C17_Witness ==
    /\ pc = "returned" /\ Len(calls) >= 2
    /\ \E n \in 0..(Len(nodes) - 1) :
          /\ n \notin ReachFrom(nodes, {0})
          /\ nodes[n + 1].edges # <<>>
          /\ nodes[n + 1].edges[1] \in ReachFrom(nodes, {0})
====
